---- MODULE Spec2Model ----
(***************************************************************************)
(* hacker-ostree (src/src/main.rs): a command-line shim that installs      *)
(* Debian packages into an overlay and drives ostree, keeping two flat     *)
(* files: repos.json (repository lines) and installed_packages.txt (names).*)
(*                                                                         *)
(* One invocation of the tool is a process: main dispatches one command,   *)
(* which runs its steps in program order.  A step is one external command  *)
(* (run_command) or one read or write of a store file.  External commands  *)
(* are the environment: each may fail to spawn, exit non-zero or exit zero.*)
(* The tool's own filesystem calls (create_dir_all, File::open,            *)
(* File::create, writes, temporary files) are taken to succeed.            *)
(*                                                                         *)
(* Strings that the code trims or compares (package names, paths) are      *)
(* sequences of characters; repository lines are opaque strings.           *)
(***************************************************************************)
EXTENDS Integers, Sequences, FiniteSets, TLC

VARIABLES
    pkgFile,    \* /var/lib/hacker-ostree/installed_packages.txt
    repoFile,   \* /etc/hacker-ostree/repos.json
    inv,        \* inv[i]: the state of invocation slot i (one process of the tool)
    runs        \* number of invocations started so far in the concurrent specification

vars == <<pkgFile, repoFile, inv, runs>>

(***************************************************************************)
(* Bounds                                                                  *)
(***************************************************************************)
MaxStore == 3   \* an install starts only while the package file has fewer lines
MaxRepos == 2   \* a repo add starts only while repos.json has fewer entries
MaxRuns == 2    \* invocations started in the concurrent specification

Procs == {1, 2}

\* Package names given on the command line: two plain names and one that
\* carries leading white space.
PkgArgs == { <<"a">>, <<"b">>, <<" ", "a">> }

\* Repository lines given on the command line.
RepoLines == { "deb r1", "deb r2" }

\* Indexes given to `repo remove`.
Indexes == 0 .. (MaxRepos + 1)

NoPkg == <<>>

(***************************************************************************)
(* Results: Result<_, String>.  An error is the text the code formats,     *)
(* kept as its kind and the command or package it names.                   *)
(***************************************************************************)
Running == [kind |-> "Running", cmd |-> "", pkg |-> NoPkg, stdout |-> <<>>]

Ok == [kind |-> "Ok", cmd |-> "", pkg |-> NoPkg, stdout |-> <<>>]

OkOut(out) == [kind |-> "Ok", cmd |-> "", pkg |-> NoPkg, stdout |-> out]

\* "Failed to execute {cmd}: ..."
FailedToExecute(cmd) == [kind |-> "FailedToExecute", cmd |-> cmd, pkg |-> NoPkg, stdout |-> <<>>]

\* "Command failed: {cmd}\nStderr: ..."
CommandFailed(cmd) == [kind |-> "CommandFailed", cmd |-> cmd, pkg |-> NoPkg, stdout |-> <<>>]

\* "No .deb file found for {package}"
NoDebFound(package) == [kind |-> "NoDebFound", cmd |-> "", pkg |-> package, stdout |-> <<>>]

\* "Invalid index"
InvalidIndex == [kind |-> "InvalidIndex", cmd |-> "", pkg |-> NoPkg, stdout |-> <<>>]

IsOk(res) == res.kind = "Ok"

(***************************************************************************)
(* run_command: the outcome of a spawned process, mapped to a Result.      *)
(***************************************************************************)
SpawnError == [spawned |-> FALSE, success |-> FALSE, stdout |-> <<>>]

ExitNonZero == [spawned |-> TRUE, success |-> FALSE, stdout |-> <<>>]

ExitZero(out) == [spawned |-> TRUE, success |-> TRUE, stdout |-> out]

\* What a command whose output the code ignores can do.
Processes == { SpawnError, ExitNonZero, ExitZero(<<>>) }

RunCommand(cmd, proc) ==
    IF ~proc.spawned THEN FailedToExecute(cmd)
    ELSE IF ~proc.success THEN CommandFailed(cmd)
    ELSE OkOut(proc.stdout)

(***************************************************************************)
(* String helpers: str::trim, and the lines of a text file.                *)
(***************************************************************************)
IsWhite(c) == c = " "

RECURSIVE TrimStart(_)
TrimStart(s) ==
    IF s # <<>> /\ IsWhite(Head(s)) THEN TrimStart(Tail(s)) ELSE s

RECURSIVE TrimEnd(_)
TrimEnd(s) ==
    IF s # <<>> /\ IsWhite(s[Len(s)]) THEN TrimEnd(SubSeq(s, 1, Len(s) - 1)) ELSE s

Trim(s) == TrimEnd(TrimStart(s))

Contains(seq, x) == \E n \in 1 .. Len(seq) : seq[n] = x

RECURSIVE Filter(_, _)
\* The elements of seq for which keep[x] holds, in order; keep is a set.
Filter(seq, keep) ==
    IF seq = <<>> THEN <<>>
    ELSE IF Head(seq) \in keep THEN <<Head(seq)>> \o Filter(Tail(seq), keep)
    ELSE Filter(Tail(seq), keep)

Range(seq) == { seq[n] : n \in 1 .. Len(seq) }

RECURSIVE MapTrim(_)
MapTrim(lines) ==
    IF lines = <<>> THEN <<>> ELSE <<Trim(Head(lines))>> \o MapTrim(Tail(lines))

(***************************************************************************)
(* The installed-package store: a text file, one name per line.            *)
(***************************************************************************)
AbsentFile == [exists |-> FALSE, lines |-> <<>>]

\* load_installed_packages: no file is the empty vector; each line is
\* trimmed and blank lines are skipped.
LoadInstalledPackages(file) ==
    IF ~file.exists THEN <<>>
    ELSE LET trimmed == MapTrim(file.lines)
         IN  Filter(trimmed, Range(trimmed) \ {<<>>})

\* A variant of File::create that keeps the old content (append mode).
CreateAppend(file) == [exists |-> TRUE, lines |-> file.lines]

\* File::create: the file exists afterwards and is truncated.
Create(file) == [exists |-> TRUE, lines |-> <<>>]

\* save_installed_packages: create (truncate), then one writeln per name.
SaveInstalledPackages(file, packages) ==
    [Create(file) EXCEPT !.lines = @ \o packages]

\* A variant of the upsert's test that never finds the name.
NotRecordedAlways(installed, package) == TRUE

\* install_package's upsert test: !installed.contains(&package.to_string()).
NotRecorded(installed, package) == ~Contains(installed, package)

\* A variant of the filter with the predicate inverted.
RetainInverted(installed, package) == Filter(installed, {package})

\* remove_package's filter: installed.retain(|p| p != package).
Retain(installed, package) == Filter(installed, Range(installed) \ {package})

(***************************************************************************)
(* The repository store: a JSON array of strings.                          *)
(***************************************************************************)
\* load_repos: no file is the empty vector; else the parsed array.
LoadRepos(file) == IF ~file.exists THEN <<>> ELSE file.lines

\* save_repos: create (truncate), then the whole array.
SaveRepos(file, repos) == [Create(file) EXCEPT !.lines = repos]

\* A variant of add_repo's push that inserts at the front.
PushFront(repos, line) == <<line>> \o repos

\* add_repo: repos.push(line).
Push(repos, line) == Append(repos, line)

\* A variant of the range check that admits index = len.
IndexInRangeInclusive(index, repos) == index <= Len(repos)

\* remove_repo: index < repos.len().
IndexInRange(index, repos) == index < Len(repos)

\* Vec::remove(index), index zero-based.
RemoveAt(repos, index) ==
    SubSeq(repos, 1, index) \o SubSeq(repos, index + 2, Len(repos))

\* main's `repo list` printing: (i, repo) for repos.iter().enumerate().
Enumerate(repos) == [n \in 1 .. Len(repos) |-> <<n - 1, repos[n]>>]

(***************************************************************************)
(* The downloaded archive lookup: `ls` is run without a shell, so the glob *)
(* pattern reaches it as one literal path operand.                         *)
(***************************************************************************)
\* format!("{}/{}_*.deb", CACHE_DIR, package), relative to CACHE_DIR.
DebPattern(package) == package \o <<"_*.deb">>

\* What the file system holds at the path the pattern spells.
DirEntries == { "absent", "file", "emptydir" }

\* ls <path>: a missing operand is a non-zero exit; a file is listed by its
\* path; an empty directory lists nothing.  stdout is a sequence of lines.
Ls(entry, path) ==
    CASE entry = "absent"   -> ExitNonZero
      [] entry = "file"     -> ExitZero(<<path>>)
      [] entry = "emptydir" -> ExitZero(<<>>)

\* ls_output.trim().split('\n'): the empty output splits into one empty string.
SplitLines(out) == IF out = <<>> THEN << <<>> >> ELSE out

(***************************************************************************)
(* Invocations                                                             *)
(***************************************************************************)
Idle ==
    [ cmd       |-> "none",     \* the function main dispatched to
      pc        |-> "idle",     \* the step to run next
      package   |-> NoPkg,      \* install_package / remove_package: package
      entry     |-> "",         \* what the file system held at the pattern path when ls ran
      deb       |-> <<>>,       \* install_package: deb_path
      sources   |-> <<>>,       \* the staged sources list (temporary file)
      installed |-> <<>>,       \* install_package / remove_package: installed
      todo      |-> <<>>,       \* upgrade_packages / resync_overlay: installed
      k         |-> 0,          \* how many elements of todo the loop has taken
      repos     |-> <<>>,       \* add_repo / remove_repo: repos
      line      |-> "",         \* add_repo: repo_line
      index     |-> 0,          \* remove_repo: index
      listing   |-> <<>>,       \* what `list` / `repo list` printed
      result    |-> Running,    \* the Result main received
      trace     |-> <<>>,       \* the external commands and saves made, in order
      pkg0      |-> AbsentFile, \* the package file when the invocation began
      repo0     |-> AbsentFile  \* the repository file when the invocation began
    ]

\* The parsed command line.
CmdLine(cmd, package, line, index) ==
    [cmd |-> cmd, package |-> package, line |-> line, index |-> index]

CmdLines ==
    { CmdLine(c, NoPkg, "", 0) :
        c \in { "apt_update", "upgrade_packages", "system_update", "list_packages",
                "rollback", "resync_overlay", "list_repos" } }
    \cup { CmdLine(c, p, "", 0) : c \in {"install_package", "remove_package"}, p \in PkgArgs }
    \cup { CmdLine("add_repo", NoPkg, l, 0) : l \in RepoLines }
    \cup { CmdLine("remove_repo", NoPkg, "", n) : n \in Indexes }

\* The first step of each function.
Entry(cmd) ==
    CASE cmd = "apt_update"       -> "apt_update"
      [] cmd = "upgrade_packages" -> "up_update"
      [] cmd = "system_update"    -> "pull"
      [] cmd = "install_package"  -> "apt_update"
      [] cmd = "remove_package"   -> "dpkg_r"
      [] cmd = "list_packages"    -> "list"
      [] cmd = "rollback"         -> "undeploy"
      [] cmd = "resync_overlay"   -> "rs_load"
      [] cmd = "list_repos"       -> "repo_list"
      [] cmd = "add_repo"         -> "add_load"
      [] cmd = "remove_repo"      -> "rm_repo_load"

Event(cmd, r, ok) == [cmd |-> cmd, pkg |-> r.package, k |-> r.k, ok |-> ok]

Logged(r, cmd, ok) == [r EXCEPT !.trace = Append(@, Event(cmd, r, ok))]

\* The function returns Ok(()) to main.
Finish(r) == [r EXCEPT !.pc = "done", !.result = Ok]

\* An error propagates to main.
Abort(r, res) == [r EXCEPT !.pc = "done", !.result = [res EXCEPT !.stdout = <<>>]]

\* A variant of `?` that drops the error and goes on.
QuestionIgnored(res, onOk, onErr) == onOk

\* The `?` operator: go on when the result is Ok, else return the error.
Question(res, onOk, onErr) == IF IsOk(res) THEN onOk ELSE onErr

\* A variant of the loop that takes the vector from its end.
NextIterationReversed(r) ==
    IF r.k < Len(r.todo)
    THEN [r EXCEPT !.k = @ + 1, !.package = r.todo[Len(r.todo) - r.k], !.pc = "apt_update"]
    ELSE Finish(r)

\* `for pkg in installed { install_package(&pkg)?; } Ok(())`: take the next
\* element of the vector and enter install_package, or return.
NextIteration(r) ==
    IF r.k < Len(r.todo)
    THEN [r EXCEPT !.k = @ + 1, !.package = r.todo[r.k + 1], !.pc = "apt_update"]
    ELSE Finish(r)

\* install_package returns Ok(()): to main, or to the loop that called it.
Return(r) ==
    IF r.cmd \in {"install_package", "remove_package"} THEN Finish(r) ELSE NextIteration(r)

\* Where apt_update returns to.
AfterAptUpdate(r) ==
    CASE r.cmd = "apt_update" -> Finish(r)
      [] r.pc = "up_update"   -> [r EXCEPT !.pc = "up_load"]
      [] OTHER                -> [r EXCEPT !.pc = "download"]

\* A variant of system_update that resyncs right after the pull.
SystemUpdateSkipsDeploy(pc) == "rs_load"

\* system_update: pull, then deploy, then resync_overlay.
SystemUpdateNext(pc) == IF pc = "pull" THEN "deploy" ELSE "rs_load"

Stopped(r) == r.pc \in {"idle", "done"}

\* Go on at step pc; "done" is the function's final Ok(()).
Goto(r, pc) == IF pc = "done" THEN Finish(r) ELSE [r EXCEPT !.pc = pc]

\* A step of slot i that runs one external command whose output is ignored,
\* and goes on at step next when it succeeded.
External(i, at, cmd, next) ==
    /\ inv[i].pc = at
    /\ \E proc \in Processes :
         LET res == RunCommand(cmd, proc)
             r   == Logged(inv[i], cmd, IsOk(res))
         IN  inv' = [inv EXCEPT ![i] = Question(res, Goto(r, next), Abort(r, res))]
    /\ UNCHANGED <<pkgFile, repoFile>>

(***************************************************************************)
(* main: parse the command line and dispatch.                              *)
(***************************************************************************)
Main(i, c) ==
    /\ Stopped(inv[i])
    /\ c.cmd = "install_package" => Len(pkgFile.lines) < MaxStore
    /\ c.cmd = "add_repo" => Len(repoFile.lines) < MaxRepos
    /\ inv' = [inv EXCEPT ![i] =
                 [Idle EXCEPT !.cmd = c.cmd, !.pc = Entry(c.cmd), !.package = c.package,
                              !.line = c.line, !.index = c.index,
                              !.pkg0 = pkgFile, !.repo0 = repoFile]]
    /\ UNCHANGED <<pkgFile, repoFile>>

\* apt_update: ensure_dirs, stage the sources, apt-get update.
AptUpdate(i) ==
    /\ inv[i].pc \in {"apt_update", "up_update"}
    /\ \E proc \in Processes :
         LET res == RunCommand("apt-get update", proc)
             r   == Logged([inv[i] EXCEPT !.sources = LoadRepos(repoFile)],
                           "apt-get update", IsOk(res))
         IN  inv' = [inv EXCEPT ![i] = Question(res, AfterAptUpdate(r), Abort(r, res))]
    /\ UNCHANGED <<pkgFile, repoFile, runs>>

\* install_package: stage the sources again, apt-get download <package>.
Download(i) ==
    /\ inv[i].pc = "download"
    /\ \E proc \in Processes :
         LET res == RunCommand("apt-get download", proc)
             r   == Logged([inv[i] EXCEPT !.sources = LoadRepos(repoFile)],
                           "apt-get download", IsOk(res))
         IN  inv' = [inv EXCEPT ![i] =
                       Question(res, [r EXCEPT !.pc = "ls"], Abort(r, res))]
    /\ UNCHANGED <<pkgFile, repoFile, runs>>

\* install_package: find the downloaded .deb with ls.
FindDeb(i) ==
    /\ inv[i].pc = "ls"
    /\ \E e \in DirEntries, spawns \in BOOLEAN :
         LET proc      == IF spawns THEN Ls(e, DebPattern(inv[i].package)) ELSE SpawnError
             res       == RunCommand("ls", proc)
             r         == Logged([inv[i] EXCEPT !.entry = e], "ls", IsOk(res))
             deb_files == SplitLines(res.stdout)
             found     == IF deb_files = <<>> \/ deb_files[1] = <<>>
                          THEN Abort(r, NoDebFound(r.package))
                          ELSE [r EXCEPT !.deb = deb_files[1], !.pc = "dpkg_i"]
         IN  inv' = [inv EXCEPT ![i] = Question(res, found, Abort(r, res))]
    /\ UNCHANGED <<pkgFile, repoFile, runs>>

\* install_package: dpkg --instdir <overlay> ... -i <deb_path>.
DpkgInstall(i) ==
    /\ External(i, "dpkg_i", "dpkg -i", "record")
    /\ UNCHANGED runs

\* install_package: load the store and push the name if it is not there.
RecordInstalled(i) ==
    /\ inv[i].pc = "record"
    /\ LET r      == inv[i]
           loaded == LoadInstalledPackages(pkgFile)
       IN  inv' = [inv EXCEPT ![i] =
                     IF NotRecorded(loaded, r.package)
                     THEN [r EXCEPT !.installed = Append(loaded, r.package), !.pc = "save"]
                     ELSE Return([r EXCEPT !.installed = loaded])]
    /\ UNCHANGED <<pkgFile, repoFile, runs>>

\* install_package / remove_package: save_installed_packages(&installed).
SaveInstalled(i) ==
    /\ inv[i].pc = "save"
    /\ pkgFile' = SaveInstalledPackages(pkgFile, inv[i].installed)
    /\ inv' = [inv EXCEPT ![i] = Return(Logged(inv[i], "save_installed_packages", TRUE))]
    /\ UNCHANGED <<repoFile, runs>>

\* remove_package: dpkg --instdir <overlay> --force-not-root -r <package>.
DpkgRemove(i) ==
    /\ External(i, "dpkg_r", "dpkg -r", "unrecord")
    /\ UNCHANGED runs

\* remove_package: load the store and filter the name out.
Unrecord(i) ==
    /\ inv[i].pc = "unrecord"
    /\ LET r == inv[i]
       IN  inv' = [inv EXCEPT ![i] =
                     [r EXCEPT !.installed = Retain(LoadInstalledPackages(pkgFile), r.package),
                               !.pc = "save"]]
    /\ UNCHANGED <<pkgFile, repoFile, runs>>

\* upgrade_packages / resync_overlay: load the store and start the loop.
LoadForLoop(i) ==
    /\ inv[i].pc \in {"up_load", "rs_load"}
    /\ inv' = [inv EXCEPT ![i] =
                 NextIteration([@ EXCEPT !.todo = LoadInstalledPackages(pkgFile), !.k = 0])]
    /\ UNCHANGED <<pkgFile, repoFile, runs>>

\* system_update: ostree pull origin main.
OstreePull(i) ==
    /\ External(i, "pull", "ostree pull", SystemUpdateNext("pull"))
    /\ UNCHANGED runs

\* system_update: ostree admin deploy origin:main.
OstreeDeploy(i) ==
    /\ External(i, "deploy", "ostree admin deploy", SystemUpdateNext("deploy"))
    /\ UNCHANGED runs

\* rollback: ostree admin undeploy 0.
OstreeUndeploy(i) ==
    /\ External(i, "undeploy", "ostree admin undeploy 0", "done")
    /\ UNCHANGED runs

\* main's `list`: list_packages, then print.
ListPackages(i) ==
    /\ inv[i].pc = "list"
    /\ inv' = [inv EXCEPT ![i] = Finish([@ EXCEPT !.listing = LoadInstalledPackages(pkgFile)])]
    /\ UNCHANGED <<pkgFile, repoFile, runs>>

\* main's `repo list`: list_repos, then print index and line.
ListRepos(i) ==
    /\ inv[i].pc = "repo_list"
    /\ inv' = [inv EXCEPT ![i] = Finish([@ EXCEPT !.listing = Enumerate(LoadRepos(repoFile))])]
    /\ UNCHANGED <<pkgFile, repoFile, runs>>

\* add_repo: load and push.
AddRepoLoad(i) ==
    /\ inv[i].pc = "add_load"
    /\ LET r == inv[i]
       IN  inv' = [inv EXCEPT ![i] =
                     [r EXCEPT !.repos = Push(LoadRepos(repoFile), r.line), !.pc = "repo_save"]]
    /\ UNCHANGED <<pkgFile, repoFile, runs>>

\* remove_repo: load, check the index, remove.
RemoveRepoLoad(i) ==
    /\ inv[i].pc = "rm_repo_load"
    /\ LET r     == inv[i]
           repos == LoadRepos(repoFile)
       IN  inv' = [inv EXCEPT ![i] =
                     IF IndexInRange(r.index, repos)
                     THEN [r EXCEPT !.repos = RemoveAt(repos, r.index), !.pc = "repo_save"]
                     ELSE Abort([r EXCEPT !.repos = repos], InvalidIndex)]
    /\ UNCHANGED <<pkgFile, repoFile, runs>>

\* add_repo / remove_repo: save_repos(&repos).
SaveReposStep(i) ==
    /\ inv[i].pc = "repo_save"
    /\ repoFile' = SaveRepos(repoFile, inv[i].repos)
    /\ inv' = [inv EXCEPT ![i] = Finish(Logged(inv[i], "save_repos", TRUE))]
    /\ UNCHANGED <<pkgFile, runs>>

Step(i) ==
    \/ AptUpdate(i)
    \/ Download(i)
    \/ FindDeb(i)
    \/ DpkgInstall(i)
    \/ RecordInstalled(i)
    \/ SaveInstalled(i)
    \/ DpkgRemove(i)
    \/ Unrecord(i)
    \/ LoadForLoop(i)
    \/ OstreePull(i)
    \/ OstreeDeploy(i)
    \/ OstreeUndeploy(i)
    \/ ListPackages(i)
    \/ ListRepos(i)
    \/ AddRepoLoad(i)
    \/ RemoveRepoLoad(i)
    \/ SaveReposStep(i)

(***************************************************************************)
(* Specifications                                                          *)
(***************************************************************************)
Init ==
    /\ pkgFile = AbsentFile
    /\ repoFile = AbsentFile
    /\ inv = [i \in Procs |-> Idle]
    /\ runs = 0

\* One invocation at a time: the tool is run again only after it has exited.
MainSerial ==
    /\ \A j \in Procs : Stopped(inv[j])
    /\ \E c \in CmdLines : Main(1, c)
    /\ UNCHANGED runs

Next == MainSerial \/ \E i \in Procs : Step(i)

Spec == Init /\ [][Next]_vars

\* Invocations that overlap in time: a second process of the tool may start
\* while another is between two of its steps.
MainConcurrent ==
    /\ runs < MaxRuns
    /\ \E i \in Procs : \E c \in CmdLines : Main(i, c)
    /\ runs' = runs + 1

NextConc == MainConcurrent \/ \E i \in Procs : Step(i)

SpecConc == Init /\ [][NextConc]_vars

(***************************************************************************)
(* Views used by the properties                                            *)
(***************************************************************************)
\* The installed-package store and the repository store, as the tool reads them.
Installed == LoadInstalledPackages(pkgFile)

Repos == LoadRepos(repoFile)

NoDuplicates(seq) == \A m, n \in 1 .. Len(seq) : m # n => seq[m] # seq[n]

Done(r) == r.pc = "done"

\* The trace holds an event of command cmd that succeeded.
Succeeded(r, cmd) == \E n \in 1 .. Len(r.trace) : r.trace[n].cmd = cmd /\ r.trace[n].ok

Attempted(r, cmd) == \E n \in 1 .. Len(r.trace) : r.trace[n].cmd = cmd

\* Every event but the last succeeded: nothing runs after a failed step.
StopsAtFirstFailure(r) == \A n \in 1 .. Len(r.trace) - 1 : r.trace[n].ok

\* The events follow the given order of commands, from its start.
FollowsOrder(r, order) ==
    /\ Len(r.trace) <= Len(order)
    /\ \A n \in 1 .. Len(r.trace) : r.trace[n].cmd = order[n]

\* When the last command run failed, the invocation has ended with its error.
LastFailureReturned(r) ==
    (r.trace # <<>> /\ ~r.trace[Len(r.trace)].ok) =>
        /\ Done(r)
        /\ r.result.kind \in {"FailedToExecute", "CommandFailed"}
        /\ r.result.cmd = r.trace[Len(r.trace)].cmd

(***************************************************************************)
(* C1.  After any sequence of install_package and remove_package           *)
(* operations, whatever the external commands do, the installed-package    *)
(* store never holds the same name twice, and a successful install of a    *)
(* name already in the store leaves the stored content unchanged.          *)
(* (The code compares the untrimmed argument with the trimmed names it     *)
(* loaded, so this statement fails.)                                       *)
(***************************************************************************)
C1_NoDuplicateNames ==
    /\ NoDuplicates(Installed)
    /\ \A i \in Procs :
         LET r == inv[i]
         IN  (r.cmd = "install_package" /\ Done(r) /\ IsOk(r.result)
                /\ Contains(LoadInstalledPackages(r.pkg0), r.package))
             => Installed = LoadInstalledPackages(r.pkg0)

(***************************************************************************)
(* C2.  An install whose cache refresh and download succeeded and whose ls *)
(* ran while no downloaded archive was at the pattern path ends with the   *)
(* error "No .deb file found for <package>", without running dpkg and      *)
(* without changing the installed-package store.                           *)
(* (ls exits non-zero for a missing operand and `?` returns that error     *)
(* first, so this statement fails.)                                        *)
(***************************************************************************)
C2_NoArchiveIsNotFound ==
    \A i \in Procs :
      LET r == inv[i]
      IN  (r.cmd = "install_package" /\ Done(r) /\ Attempted(r, "ls")
             /\ r.entry # "file" /\ r.result.kind # "FailedToExecute")
          => /\ r.result = NoDebFound(r.package)
             /\ ~Attempted(r, "dpkg -i")
             /\ pkgFile = r.pkg0

(***************************************************************************)
(* C3.  upgrade_packages and resync_overlay install the packages of the    *)
(* store one at a time in stored order and stop at the first install that  *)
(* fails: the k-th install is of the k-th stored name, every package       *)
(* before the current one has been installed by dpkg, nothing runs after a *)
(* failed step, a failed run returns that step's error with no later       *)
(* package attempted, a successful run has installed them all, and every   *)
(* package recorded before is still recorded.                              *)
(***************************************************************************)
C3_UpgradeStopsAtFirstFailure ==
    \A i \in Procs :
      LET r     == inv[i]
          store == LoadInstalledPackages(r.pkg0)
          t     == r.trace
      IN  r.cmd \in {"upgrade_packages", "resync_overlay"} =>
            /\ r.k <= Len(store)
            /\ \A n \in 1 .. Len(t) :
                 /\ t[n].k <= r.k
                 /\ t[n].k >= 1 => t[n].pkg = store[t[n].k]
                 /\ \A m \in 1 .. n : t[m].k <= t[n].k
            /\ \A j \in 1 .. r.k - 1 :
                 \E n \in 1 .. Len(t) : t[n].k = j /\ t[n].cmd = "dpkg -i" /\ t[n].ok
            /\ StopsAtFirstFailure(r)
            /\ LastFailureReturned(r)
            /\ (Done(r) /\ ~IsOk(r.result) /\ r.k >= 1) =>
                 ~\E n \in 1 .. Len(t) : t[n].k = r.k /\ t[n].cmd = "dpkg -i" /\ t[n].ok
            /\ (Done(r) /\ IsOk(r.result)) =>
                 /\ r.k = Len(store)
                 /\ \A j \in 1 .. Len(store) :
                      \E n \in 1 .. Len(t) : t[n].k = j /\ t[n].cmd = "dpkg -i" /\ t[n].ok
            /\ Range(store) \subseteq Range(Installed)

\* upgrade over the store <<a, b>>: a was installed, b's install failed.
C3_Witness ==
    \E i \in Procs :
      LET r == inv[i]
      IN  /\ r.cmd = "upgrade_packages" /\ Done(r) /\ ~IsOk(r.result)
          /\ LoadInstalledPackages(r.pkg0) = << <<"a">>, <<"b">> >>
          /\ r.k = 2
          /\ \E n \in 1 .. Len(r.trace) :
               r.trace[n].k = 1 /\ r.trace[n].cmd = "dpkg -i" /\ r.trace[n].ok
          /\ Contains(Installed, <<"a">>)

(***************************************************************************)
(* C4.  remove_repo(index) with index >= the length of the stored sequence *)
(* fails with the invalid-index error, saves nothing and leaves the stored *)
(* sequence as it was; with index < length it removes exactly the entry at *)
(* that zero-based index, keeps the others in order and saves the result.  *)
(***************************************************************************)
C4_RemoveRepoByIndex ==
    \A i \in Procs :
      LET r   == inv[i]
          old == LoadRepos(r.repo0)
      IN  (r.cmd = "remove_repo" /\ Done(r)) =>
            IF r.index >= Len(old)
            THEN /\ r.result = InvalidIndex
                 /\ ~Attempted(r, "save_repos")
                 /\ repoFile = r.repo0
            ELSE /\ r.result = Ok
                 /\ Attempted(r, "save_repos")
                 /\ repoFile.exists
                 /\ Len(Repos) = Len(old) - 1
                 /\ \A n \in 1 .. Len(Repos) :
                      Repos[n] = IF n <= r.index THEN old[n] ELSE old[n + 1]

\* An out-of-range index on a store that is not empty.
C4_Witness ==
    \E i \in Procs :
      LET r == inv[i]
      IN  /\ r.cmd = "remove_repo" /\ Done(r)
          /\ Len(LoadRepos(r.repo0)) >= 1
          /\ r.index >= Len(LoadRepos(r.repo0))
          /\ r.result = InvalidIndex

(***************************************************************************)
(* C5.  add_repo appends the line at the end of the stored sequence and    *)
(* leaves every earlier entry at its index, with no uniqueness check: a    *)
(* store of n entries has n + 1 afterwards, the new line at index n.  With *)
(* no file the loaded sequence is empty, so the store is then exactly the  *)
(* one line; `repo list` shows each entry with its zero-based index.       *)
(***************************************************************************)
C5_AddRepoAppends ==
    \A i \in Procs :
      LET r   == inv[i]
          old == LoadRepos(r.repo0)
      IN  /\ (r.cmd = "add_repo" /\ Done(r)) =>
               /\ r.result = Ok
               /\ Len(Repos) = Len(old) + 1
               /\ Repos[Len(old) + 1] = r.line
               /\ \A n \in 1 .. Len(old) : Repos[n] = old[n]
               /\ ~r.repo0.exists => Repos = <<r.line>>
          /\ (r.cmd = "list_repos" /\ Done(r)) =>
               /\ r.result = Ok
               /\ Len(r.listing) = Len(Repos)
               /\ \A n \in 1 .. Len(Repos) : r.listing[n] = <<n - 1, Repos[n]>>

\* An add to a store that held one entry: two entries, the added line at
\* index 1.
C5_Witness ==
    \E i \in Procs :
      LET r == inv[i]
      IN  /\ r.cmd = "add_repo" /\ Done(r) /\ IsOk(r.result)
          /\ Len(LoadRepos(r.repo0)) = 1
          /\ Repos = Append(LoadRepos(r.repo0), r.line)

(***************************************************************************)
(* C6.  Removing a package whose name is not in the installed-package      *)
(* store leaves the store's content (the sequence of names the tool loads) *)
(* unchanged, and the operation returns success whenever dpkg -r did: the  *)
(* filter of a name that matches nothing changes nothing and is no error.  *)
(***************************************************************************)
C6_RemoveAbsentIsNoOp ==
    \A i \in Procs :
      LET r   == inv[i]
          old == LoadInstalledPackages(r.pkg0)
      IN  (r.cmd = "remove_package" /\ ~Contains(old, r.package)) =>
            /\ Installed = old
            /\ (Done(r) /\ Succeeded(r, "dpkg -r")) =>
                 /\ r.result = Ok
                 /\ Attempted(r, "save_installed_packages")
            /\ (Done(r) /\ ~IsOk(r.result)) => r.result.cmd = "dpkg -r"

\* A successful remove of a name that a store of two names does not hold.
C6_Witness ==
    \E i \in Procs :
      LET r == inv[i]
      IN  /\ r.cmd = "remove_package" /\ Done(r) /\ r.result = Ok
          /\ Len(LoadInstalledPackages(r.pkg0)) = 2
          /\ ~Contains(LoadInstalledPackages(r.pkg0), r.package)
          /\ Attempted(r, "save_installed_packages")

(***************************************************************************)
(* C7.  The stores are read and overwritten with no locking, so an update  *)
(* can be lost: when two install_package runs for different packages (or   *)
(* two add_repo runs for different lines) have both succeeded and saved,   *)
(* each having loaded the store before the other saved, the stored         *)
(* sequence is the one the later run wrote and lacks the other addition.   *)
(***************************************************************************)
C7_LostUpdate ==
    \A i, j \in Procs :
      LET ri == inv[i]
          rj == inv[j]
      IN  (i # j /\ ri.cmd = rj.cmd /\ Done(ri) /\ Done(rj)
             /\ IsOk(ri.result) /\ IsOk(rj.result)) =>
            /\ (/\ ri.cmd = "install_package"
                /\ Attempted(ri, "save_installed_packages")
                /\ Attempted(rj, "save_installed_packages")
                /\ ri.package # rj.package
                /\ ~Contains(ri.installed, rj.package)
                /\ ~Contains(rj.installed, ri.package))
               => /\ pkgFile.lines \in {ri.installed, rj.installed}
                  /\ ~(Contains(pkgFile.lines, ri.package) /\ Contains(pkgFile.lines, rj.package))
            /\ (/\ ri.cmd = "add_repo"
                /\ ri.line # rj.line
                /\ ~Contains(ri.repos, rj.line)
                /\ ~Contains(rj.repos, ri.line))
               => /\ repoFile.lines \in {ri.repos, rj.repos}
                  /\ ~(Contains(Repos, ri.line) /\ Contains(Repos, rj.line))

\* Two installs, of a and of b, both returned Ok; the store holds only b.
C7_Witness ==
    \E i, j \in Procs :
      LET ri == inv[i]
          rj == inv[j]
      IN  /\ i # j
          /\ ri.cmd = "install_package" /\ rj.cmd = "install_package"
          /\ Done(ri) /\ Done(rj) /\ ri.result = Ok /\ rj.result = Ok
          /\ ri.package = <<"a">> /\ rj.package = <<"b">>
          /\ Attempted(ri, "save_installed_packages")
          /\ Attempted(rj, "save_installed_packages")
          /\ Installed = << <<"b">> >>

(***************************************************************************)
(* C8.  install_package runs apt-get update, apt-get download, ls, dpkg -i *)
(* and the save of the store in that order, and the first failing step     *)
(* ends it: nothing runs after a failure, its error is returned, and the   *)
(* store file is as it was; the file changes only after dpkg -i succeeded. *)
(* remove_package changes the file only after dpkg -r succeeded.           *)
(***************************************************************************)
InstallOrder ==
    << "apt-get update", "apt-get download", "ls", "dpkg -i", "save_installed_packages" >>

RemoveOrder == << "dpkg -r", "save_installed_packages" >>

C8_InstallStepOrder ==
    \A i \in Procs :
      LET r == inv[i]
      IN  /\ r.cmd = "install_package" =>
               /\ FollowsOrder(r, InstallOrder)
               /\ StopsAtFirstFailure(r)
               /\ LastFailureReturned(r)
               /\ pkgFile # r.pkg0 => Succeeded(r, "dpkg -i")
               /\ Contains(Installed, Trim(r.package)) /\ ~Contains(LoadInstalledPackages(r.pkg0), Trim(r.package))
                    => Succeeded(r, "dpkg -i")
               /\ (Done(r) /\ ~IsOk(r.result)) =>
                    /\ pkgFile = r.pkg0
                    /\ ~Attempted(r, "save_installed_packages")
                    /\ r.result.kind = "NoDebFound" => ~Attempted(r, "dpkg -i")
               /\ (Done(r) /\ IsOk(r.result)) => Succeeded(r, "dpkg -i")
          /\ r.cmd = "remove_package" =>
               /\ FollowsOrder(r, RemoveOrder)
               /\ StopsAtFirstFailure(r)
               /\ LastFailureReturned(r)
               /\ pkgFile # r.pkg0 => Succeeded(r, "dpkg -r")
               /\ (Done(r) /\ ~IsOk(r.result)) => pkgFile = r.pkg0

\* An install that ran all five steps and recorded a new name.
C8_Witness ==
    \E i \in Procs :
      LET r == inv[i]
      IN  /\ r.cmd = "install_package" /\ Done(r) /\ r.result = Ok
          /\ Len(r.trace) = 5
          /\ pkgFile # r.pkg0
          /\ Contains(Installed, r.package)

(***************************************************************************)
(* C9.  system_update runs ostree pull, then ostree admin deploy, then the *)
(* overlay resync: a failed pull ends it before deploy and resync, a       *)
(* failed deploy ends it before resync, and the resync starts only after   *)
(* both succeeded.  rollback runs only ostree admin undeploy 0 and changes *)
(* neither store file.                                                     *)
(***************************************************************************)
ResyncPcs == { "rs_load", "apt_update", "download", "ls", "dpkg_i", "record", "save" }

C9_SystemUpdateOrder ==
    \A i \in Procs :
      LET r == inv[i]
          t == r.trace
      IN  /\ r.cmd = "system_update" =>
               /\ Len(t) >= 1 => t[1].cmd = "ostree pull"
               /\ Len(t) >= 2 => t[1].ok /\ t[2].cmd = "ostree admin deploy"
               /\ Len(t) >= 3 => t[2].ok
               /\ \A n \in 3 .. Len(t) :
                    t[n].k >= 1 /\ t[n].cmd \notin {"ostree pull", "ostree admin deploy"}
               /\ (r.pc \in ResyncPcs \/ r.k >= 1 \/ (Done(r) /\ IsOk(r.result))) =>
                    Succeeded(r, "ostree pull") /\ Succeeded(r, "ostree admin deploy")
               /\ r.pc = "deploy" => Succeeded(r, "ostree pull")
               /\ LastFailureReturned(r)
          /\ r.cmd = "rollback" =>
               /\ FollowsOrder(r, << "ostree admin undeploy 0" >>)
               /\ Done(r) => Len(t) = 1
               /\ LastFailureReturned(r)
               /\ pkgFile = r.pkg0
               /\ repoFile = r.repo0

\* A system update that pulled, deployed and then re-installed a package.
C9_Witness ==
    \E i \in Procs :
      LET r == inv[i]
      IN  /\ r.cmd = "system_update" /\ Done(r) /\ r.result = Ok
          /\ r.trace[1].ok /\ r.trace[2].ok
          /\ Len(r.trace) >= 3
          /\ Succeeded(r, "dpkg -i")

(***************************************************************************)
(* C10.  With no other invocation running, upgrade_packages,               *)
(* resync_overlay and system_update never change the installed-package     *)
(* store, whether they complete or abort at any step: every package they   *)
(* install was read from the store, so install_package finds it there and  *)
(* saves nothing.                                                          *)
(***************************************************************************)
C10_LoopsLeaveStoreUnchanged ==
    \A i \in Procs :
      LET r == inv[i]
      IN  r.cmd \in {"upgrade_packages", "resync_overlay", "system_update"} =>
            /\ pkgFile = r.pkg0
            /\ Installed = LoadInstalledPackages(r.pkg0)
            /\ ~Attempted(r, "save_installed_packages")
            /\ r.pc # "save"

\* A resync of two stored packages that installed both and returned Ok.
C10_Witness ==
    \E i \in Procs :
      LET r == inv[i]
      IN  /\ r.cmd = "resync_overlay" /\ Done(r) /\ r.result = Ok
          /\ Len(LoadInstalledPackages(r.pkg0)) = 2
          /\ r.k = 2
          /\ Len(r.trace) = 8

====
